---- MODULE Spec2Model ----
(***************************************************************************)
(* chaos-lab: the three simulation facades LorenzSystem, RosslerSystem and *)
(* DoublePendulumSystem (RK4 step, stability guard, trail, Lyapunov        *)
(* estimator, Poincare sampler).                                           *)
(*                                                                         *)
(* Numbers.  A JavaScript number is modelled by a small saturating number  *)
(* format: the integers -MaxNum..MaxNum are the finite values, and three   *)
(* further values stand for +Infinity, -Infinity and NaN.  Arithmetic      *)
(* follows IEEE-754 in shape: a result beyond MaxNum overflows to an       *)
(* infinity, Inf-Inf, 0*Inf, 0/0 and Inf/Inf give NaN, x/0 gives an        *)
(* infinity, every comparison with NaN is false.  Rounding is truncation   *)
(* to the grid.  Time is measured in base steps (this.dt is one unit),     *)
(* angles in quarter turns (Math.PI / 2 is one unit, so that sin and cos   *)
(* are exact on the grid).                                                 *)
(***************************************************************************)
EXTENDS Integers, Sequences, FiniteSets, TLC

\* ---------------------------------------------------------------- bounds
MaxNum == 100           \* largest finite magnitude of the number format
MaxSteps == 6           \* step calls explored per instance
MaxOther == 2           \* calls other than step(1) explored per instance
MaxPairCalls == 3       \* calls explored on a pair of instances
MaxReturnedCalls == 3   \* calls explored while the caller holds a returned value
MaxSnapshotCalls == 3   \* calls explored while the caller holds a snapshot
MaxFrames == 5          \* frames explored in which the loop steps
MaxResets == 2          \* resetSimulation calls explored
MaxRefPerturbs == 1     \* perturbActiveSystem calls explored
MaxTrimmedSteps == 4    \* steps of the caller that trims after every step
MaxTrimmedOther == 1    \* other calls of the caller that trims after every step
Threshold == 8          \* the guard's magnitude threshold (1e6 in the source)
WarmUp == 2             \* the Poincare warm-up trail length (100 in the source)
MAX_POINCARE == 2       \* the cap on poincarePoints (5000 in the source)
RENORM_ATTRACTOR == 2   \* RENORM_INTERVAL of Lorenz and Rossler (10 in the source)
RENORM_PENDULUM == 3    \* RENORM_INTERVAL of the pendulum (20 in the source)
TUnit == 4              \* grid value of a tangent vector of length 1

\* ------------------------------------------------------ the number format
PInf == MaxNum + 1
NInf == -(MaxNum + 1)
NaN == MaxNum + 2
Num == (NInf..PInf) \cup {NaN}

isFinite(v) == v >= -MaxNum /\ v <= MaxNum

Sat(r) == IF r > MaxNum THEN PInf ELSE IF r < -MaxNum THEN NInf ELSE r

Sign(v) == IF v < 0 THEN -1 ELSE IF v > 0 THEN 1 ELSE 0

Neg(a) == IF a = NaN THEN NaN ELSE -a

Add(a, b) ==
  IF a = NaN \/ b = NaN THEN NaN
  ELSE IF ~isFinite(a) /\ ~isFinite(b) THEN (IF a = b THEN a ELSE NaN)
  ELSE IF ~isFinite(a) THEN a
  ELSE IF ~isFinite(b) THEN b
  ELSE Sat(a + b)

Sub(a, b) == Add(a, Neg(b))

Mul(a, b) ==
  IF a = NaN \/ b = NaN THEN NaN
  ELSE IF ~isFinite(a) \/ ~isFinite(b)
       THEN (IF a = 0 \/ b = 0 THEN NaN
             ELSE IF Sign(a) * Sign(b) > 0 THEN PInf ELSE NInf)
  ELSE Sat(a * b)

\* truncation toward zero, as the grid's rounding of a real quotient
Quot(a, b) == Sign(a) * Sign(b) * ((Sign(a) * a) \div (Sign(b) * b))

Div(a, b) ==
  IF a = NaN \/ b = NaN THEN NaN
  ELSE IF ~isFinite(a) /\ ~isFinite(b) THEN NaN
  ELSE IF ~isFinite(a) THEN (IF Sign(a) * Sign(b) < 0 THEN NInf ELSE PInf)
  ELSE IF ~isFinite(b) THEN 0
  ELSE IF b = 0 THEN (IF a = 0 THEN NaN ELSE IF a > 0 THEN PInf ELSE NInf)
  ELSE Quot(a, b)

Abs(a) == IF a = NaN THEN NaN ELSE IF a < 0 THEN -a ELSE a

\* comparisons: false whenever an operand is NaN
Gt(a, b) == a # NaN /\ b # NaN /\ a > b
Lt(a, b) == a # NaN /\ b # NaN /\ a < b
Ge(a, b) == a # NaN /\ b # NaN /\ a >= b
Le(a, b) == a # NaN /\ b # NaN /\ a <= b

\* Math.sqrt
Sqrt(a) ==
  IF a = NaN \/ a < 0 THEN NaN
  ELSE IF a = PInf THEN PInf
  ELSE CHOOSE r \in 0..a : r * r <= a /\ (r + 1) * (r + 1) > a

RECURSIVE Log2(_)
Log2(n) == IF n <= 1 THEN 0 ELSE 1 + Log2(n \div 2)

\* Math.log of a tangent norm (a positive finite grid value; TUnit is length 1),
\* to the resolution the grid allows
Log(n) == 2 * (Log2(n * n) - Log2(TUnit * TUnit))

\* Math.sin and Math.cos of an angle in quarter turns
Sin(t) ==
  IF ~isFinite(t) THEN NaN
  ELSE CASE t % 4 = 0 -> 0 [] t % 4 = 1 -> 1 [] t % 4 = 2 -> 0 [] OTHER -> -1

Cos(t) ==
  IF ~isFinite(t) THEN NaN
  ELSE CASE t % 4 = 0 -> 1 [] t % 4 = 1 -> 0 [] t % 4 = 2 -> -1 [] OTHER -> 0

\* Vector3.length()
Length3(v) == Sqrt(Add(Add(Mul(v[1], v[1]), Mul(v[2], v[2])), Mul(v[3], v[3])))

\* Vector3.distanceTo()
DistanceTo(a, b) == Length3(<< Sub(a[1], b[1]), Sub(a[2], b[2]), Sub(a[3], b[3]) >>)

\* Array.prototype.splice(0, n): the sequence without its first n elements
DropFront(s, n) == IF n <= 0 THEN s ELSE SubSeq(s, n + 1, Len(s))

\* v * (n / d) for a fractional factor n / d: only the result is rounded
Scale(v, n, d) ==
  IF isFinite(v) /\ isFinite(n) THEN Sat(Quot(v * n, d)) ELSE Div(Mul(v, n), d)

\* one weighted RK4 increment (dt / 6) * (k1 + 2 k2 + 2 k3 + k4)
Rk4Inc(dt, k1, k2, k3, k4) ==
  Scale(Add(Add(Add(k1, Mul(2, k2)), Mul(2, k3)), k4), dt, 6)

\* an RK4 stage argument  v + c * dt * k  with c = 1/2 (half) or 1
Stage(v, dt, k, half) ==
  Add(v, IF half THEN Scale(k, dt, 2) ELSE Mul(dt, k))

\* ------------------------------------------------------------ LorenzSystem
LorenzDt == 1

LorenzSafe == <<1, 1, 1>>

LorenzConstruct(initialPosition, params) ==
  [ position         |-> initialPosition,
    params           |-> params,
    points           |-> << initialPosition >>,
    perturbation     |-> <<TUnit, 0, 0>>,
    lyapunovSum      |-> 0,
    lyapunovSteps    |-> 0,
    lyapunovExponent |-> 0,
    stepsSinceRenorm |-> 0,
    prevZ            |-> initialPosition[3],
    prevDz           |-> 0,
    poincarePoints   |-> << >> ]

LorenzDerivatives(p, x, y, z) ==
  << Mul(p.sigma, Sub(y, x)),
     Sub(Mul(x, Sub(p.rho, z)), y),
     Sub(Mul(x, y), Mul(p.beta, z)) >>

LorenzJacobianApply(p, x, y, z, dx, dy, dz) ==
  << Mul(p.sigma, Sub(dy, dx)),
     Sub(Sub(Mul(Sub(p.rho, z), dx), dy), Mul(x, dz)),
     Sub(Add(Mul(y, dx), Mul(x, dy)), Mul(p.beta, dz)) >>

\* the stability guard's test on the integrated position
LorenzDiverged(pos) ==
  \/ ~isFinite(pos[1]) \/ ~isFinite(pos[2]) \/ ~isFinite(pos[3])
  \/ Gt(Abs(pos[1]), Threshold)

\* mutant: the guard is missing
LorenzGuardMissing(rk) == rk

\* the stability guard: the integrated position, or the safe value
LorenzGuard(rk) == IF LorenzDiverged(rk) THEN LorenzSafe ELSE rk

\* the RK4 result, before the guard
LorenzRk4(self, dt) ==
  LET p  == self.params
      x  == self.position[1]
      y  == self.position[2]
      z  == self.position[3]
      At(k, half) ==
        LorenzDerivatives(p, Stage(x, dt, k[1], half), Stage(y, dt, k[2], half),
                          Stage(z, dt, k[3], half))
      Sum(k1, k2, k3, k4) ==
        << Add(x, Rk4Inc(dt, k1[1], k2[1], k3[1], k4[1])),
           Add(y, Rk4Inc(dt, k1[2], k2[2], k3[2], k4[2])),
           Add(z, Rk4Inc(dt, k1[3], k2[3], k3[3], k4[3])) >>
      From3(k1, k2, k3) == Sum(k1, k2, k3, At(k3, FALSE))
      From2(k1, k2)     == From3(k1, k2, At(k2, TRUE))
      From1(k1)         == From2(k1, At(k1, TRUE))
  IN  From1(LorenzDerivatives(p, x, y, z))

\* mutant: the norm is not tested before it is used
RenormalizeUnguarded(self, pert, norm, interval, baseDt) ==
  IF self.stepsSinceRenorm + 1 >= interval
  THEN LET sum   == Add(self.lyapunovSum, Log(norm))
           steps == self.lyapunovSteps + 1
       IN  [ pert  |-> [i \in DOMAIN pert |-> Div(Mul(pert[i], TUnit), norm)],
             sum   |-> sum,
             steps |-> steps,
             exp   |-> Div(sum, Mul(Mul(steps, interval), baseDt)),
             since |-> 0 ]
  ELSE [ pert |-> pert, sum |-> self.lyapunovSum, steps |-> self.lyapunovSteps,
         exp |-> self.lyapunovExponent, since |-> self.stepsSinceRenorm + 1 ]

\* mutant: the interval test is off by one
RenormalizeLate(self, pert, norm, interval, baseDt) ==
  IF self.stepsSinceRenorm + 1 > interval
  THEN IF Gt(norm, 0) /\ isFinite(norm)
       THEN LET sum   == Add(self.lyapunovSum, Log(norm))
                steps == self.lyapunovSteps + 1
            IN  [ pert  |-> [i \in DOMAIN pert |-> Div(Mul(pert[i], TUnit), norm)],
                  sum   |-> sum,
                  steps |-> steps,
                  exp   |-> Div(sum, Mul(Mul(steps, interval), baseDt)),
                  since |-> 0 ]
       ELSE [ pert |-> pert, sum |-> self.lyapunovSum, steps |-> self.lyapunovSteps,
              exp |-> self.lyapunovExponent, since |-> 0 ]
  ELSE [ pert |-> pert, sum |-> self.lyapunovSum, steps |-> self.lyapunovSteps,
         exp |-> self.lyapunovExponent, since |-> self.stepsSinceRenorm + 1 ]

\* the Lyapunov block shared in shape by the three step methods: pert is the
\* tangent vector already advanced by one Euler step
Renormalize(self, pert, norm, interval, baseDt) ==
  IF self.stepsSinceRenorm + 1 >= interval
  THEN IF Gt(norm, 0) /\ isFinite(norm)
       THEN LET sum   == Add(self.lyapunovSum, Log(norm))
                steps == self.lyapunovSteps + 1
            IN  [ pert  |-> [i \in DOMAIN pert |-> Div(Mul(pert[i], TUnit), norm)],
                  sum   |-> sum,
                  steps |-> steps,
                  exp   |-> Div(sum, Mul(Mul(steps, interval), baseDt)),
                  since |-> 0 ]
       ELSE [ pert |-> pert, sum |-> self.lyapunovSum, steps |-> self.lyapunovSteps,
              exp |-> self.lyapunovExponent, since |-> 0 ]
  ELSE [ pert |-> pert, sum |-> self.lyapunovSum, steps |-> self.lyapunovSteps,
         exp |-> self.lyapunovExponent, since |-> self.stepsSinceRenorm + 1 ]

\* mutant: at the cap the newest pair is dropped instead of the oldest
PushPoincareKeepsOldest(list, pair) ==
  LET pushed == Append(list, pair)
  IN  IF Len(pushed) > MAX_POINCARE
      THEN SubSeq(pushed, 1, MAX_POINCARE)
      ELSE pushed

\* push a pair and cap the list from the front
PushPoincare(list, pair) ==
  LET pushed == Append(list, pair)
  IN  IF Len(pushed) > MAX_POINCARE
      THEN DropFront(pushed, Len(pushed) - MAX_POINCARE)
      ELSE pushed

\* mutant: the warm-up counts a trail of exactly the warm-up length as long enough
LorenzCrossedAtWarmUp(self, pos, pts) ==
  Gt(self.prevDz, 0) /\ Le(Sub(pos[3], self.prevZ), 0) /\ Len(pts) >= WarmUp

\* the Poincare test of a step that integrated to pos and left the trail pts
LorenzCrossed(self, pos, pts) ==
  Gt(self.prevDz, 0) /\ Le(Sub(pos[3], self.prevZ), 0) /\ Len(pts) > WarmUp

\* the tangent vector advanced by one Euler step at the new position
LorenzTangent(self, dt, pos) ==
  LET Advanced(j) ==
        << Add(self.perturbation[1], Mul(j[1], dt)),
           Add(self.perturbation[2], Mul(j[2], dt)),
           Add(self.perturbation[3], Mul(j[3], dt)) >>
  IN  Advanced(LorenzJacobianApply(self.params, pos[1], pos[2], pos[3],
                 self.perturbation[1], self.perturbation[2], self.perturbation[3]))

\* the advanced tangent vector, then the renormalization
LorenzLyapunov(self, dt, pos) ==
  LET Renorm(pert) == Renormalize(self, pert, Length3(pert), RENORM_ATTRACTOR, LorenzDt)
  IN  Renorm(LorenzTangent(self, dt, pos))

\* mutant: a step that ends on the safe position restarts the Lyapunov
\* accumulation and the Poincare section
LorenzAssignRestartsOnSafe(self, pos, pts, ly) ==
  [ self EXCEPT
      !.position         = pos,
      !.points           = pts,
      !.perturbation     = IF pos = LorenzSafe THEN <<TUnit, 0, 0>> ELSE ly.pert,
      !.lyapunovSum      = IF pos = LorenzSafe THEN 0 ELSE ly.sum,
      !.lyapunovSteps    = IF pos = LorenzSafe THEN 0 ELSE ly.steps,
      !.lyapunovExponent = IF pos = LorenzSafe THEN 0 ELSE ly.exp,
      !.stepsSinceRenorm = IF pos = LorenzSafe THEN 0 ELSE ly.since,
      !.poincarePoints   = IF pos = LorenzSafe THEN << >>
                           ELSE IF LorenzCrossed(self, pos, pts)
                           THEN PushPoincare(self.poincarePoints, <<pos[1], pos[2]>>)
                           ELSE self.poincarePoints,
      !.prevDz           = Sub(pos[3], self.prevZ),
      !.prevZ            = pos[3] ]

\* what step assigns, given the guarded position pos and the Lyapunov block's
\* results ly
LorenzAssign(self, pos, pts, ly) ==
  [ self EXCEPT
      !.position         = pos,
      !.points           = pts,
      !.perturbation     = ly.pert,
      !.lyapunovSum      = ly.sum,
      !.lyapunovSteps    = ly.steps,
      !.lyapunovExponent = ly.exp,
      !.stepsSinceRenorm = ly.since,
      !.poincarePoints   = IF LorenzCrossed(self, pos, pts)
                           THEN PushPoincare(self.poincarePoints, <<pos[1], pos[2]>>)
                           ELSE self.poincarePoints,
      !.prevDz           = Sub(pos[3], self.prevZ),
      !.prevZ            = pos[3] ]

\* step from the guarded position on
LorenzStepFrom(self, dt, pos) ==
  LorenzAssign(self, pos, Append(self.points, pos), LorenzLyapunov(self, dt, pos))

LorenzStep(self, speed) ==
  LorenzStepFrom(self, Mul(LorenzDt, speed),
                 LorenzGuard(LorenzRk4(self, Mul(LorenzDt, speed))))

\* the value step returns, given the instance as step leaves it
LorenzStepResult(self) == self.position

\* mutant: reset forgets the steps-since-renormalization counter
LorenzResetKeepsRenormCount(self, initialPosition) ==
  [ LorenzConstruct(initialPosition, self.params) EXCEPT
      !.stepsSinceRenorm = self.stepsSinceRenorm ]

LorenzReset(self, initialPosition) ==
  [ self EXCEPT
      !.position         = initialPosition,
      !.points           = << initialPosition >>,
      !.perturbation     = <<TUnit, 0, 0>>,
      !.lyapunovSum      = 0,
      !.lyapunovSteps    = 0,
      !.lyapunovExponent = 0,
      !.stepsSinceRenorm = 0,
      !.prevZ            = initialPosition[3],
      !.prevDz           = 0,
      !.poincarePoints   = << >> ]

\* { ...this.params, ...params }: partial is a function on a subset of the keys
MergeParams(old, partial) ==
  [k \in DOMAIN old |-> IF k \in DOMAIN partial THEN partial[k] ELSE old[k]]

\* mutant: a parameter change clears the Poincare section
LorenzUpdateParamsClearsSection(self, partial) ==
  [ self EXCEPT !.params = MergeParams(self.params, partial), !.poincarePoints = << >> ]

LorenzUpdateParams(self, partial) ==
  [ self EXCEPT !.params = MergeParams(self.params, partial) ]

\* mutant: the trim keeps the oldest points
LorenzTrimTrailKeepsOldest(self, maxLength) ==
  IF Len(self.points) > maxLength
  THEN [ self EXCEPT !.points = SubSeq(self.points, 1, maxLength) ]
  ELSE self

LorenzTrimTrail(self, maxLength) ==
  IF Len(self.points) > maxLength
  THEN [ self EXCEPT !.points = DropFront(self.points, Len(self.points) - maxLength) ]
  ELSE self

\* mutant: the short-trail test is off by one
LorenzGetSpeedNeedsThree(self) ==
  IF Len(self.points) < 3 THEN 0
  ELSE DistanceTo(self.points[Len(self.points)], self.points[Len(self.points) - 1])

LorenzGetSpeed(self) ==
  IF Len(self.points) < 2 THEN 0
  ELSE DistanceTo(self.points[Len(self.points)], self.points[Len(self.points) - 1])

\* getPosition builds a new object from the components of this.position
LorenzGetPosition(self) == self.position

\* mutant: the perturbed position is also appended to the trail
LorenzPerturbPushes(self, amount, draws) ==
  [ self EXCEPT !.position =
                  [i \in 1..3 |-> Add(self.position[i], Mul(draws[i], amount))],
                !.points =
                  Append(self.points,
                         [i \in 1..3 |-> Add(self.position[i], Mul(draws[i], amount))]) ]

\* draws are the values of (Math.random() - 0.5) * 2, one per component
LorenzPerturb(self, amount, draws) ==
  [ self EXCEPT !.position =
      [i \in 1..3 |-> Add(self.position[i], Mul(draws[i], amount))] ]

\* ----------------------------------------------------------- RosslerSystem
RosslerDt == 1

RosslerSafe == <<1, 1, 1>>

RosslerConstruct(initialPosition, params) ==
  [ position         |-> initialPosition,
    params           |-> params,
    points           |-> << initialPosition >>,
    perturbation     |-> <<TUnit, 0, 0>>,
    lyapunovSum      |-> 0,
    lyapunovSteps    |-> 0,
    lyapunovExponent |-> 0,
    stepsSinceRenorm |-> 0,
    prevY            |-> initialPosition[2],
    poincarePoints   |-> << >> ]

RosslerDerivatives(p, x, y, z) ==
  << Sub(Neg(y), z),
     Add(x, Mul(p.a, y)),
     Add(p.b, Mul(z, Sub(x, p.c))) >>

RosslerJacobianApply(p, x, y, z, dx, dy, dz) ==
  << Sub(Neg(dy), dz),
     Add(dx, Mul(p.a, dy)),
     Add(Mul(z, dx), Mul(Sub(x, p.c), dz)) >>

RosslerDiverged(pos) ==
  \/ ~isFinite(pos[1]) \/ ~isFinite(pos[2]) \/ ~isFinite(pos[3])
  \/ Gt(Abs(pos[1]), Threshold)

RosslerGuard(rk) == IF RosslerDiverged(rk) THEN RosslerSafe ELSE rk

RosslerRk4(self, dt) ==
  LET p  == self.params
      x  == self.position[1]
      y  == self.position[2]
      z  == self.position[3]
      At(k, half) ==
        RosslerDerivatives(p, Stage(x, dt, k[1], half), Stage(y, dt, k[2], half),
                          Stage(z, dt, k[3], half))
      Sum(k1, k2, k3, k4) ==
        << Add(x, Rk4Inc(dt, k1[1], k2[1], k3[1], k4[1])),
           Add(y, Rk4Inc(dt, k1[2], k2[2], k3[2], k4[2])),
           Add(z, Rk4Inc(dt, k1[3], k2[3], k3[3], k4[3])) >>
      From3(k1, k2, k3) == Sum(k1, k2, k3, At(k3, FALSE))
      From2(k1, k2)     == From3(k1, k2, At(k2, TRUE))
      From1(k1)         == From2(k1, At(k1, TRUE))
  IN  From1(RosslerDerivatives(p, x, y, z))

RosslerCrossed(self, pos, pts) ==
  Lt(self.prevY, 0) /\ Ge(pos[2], 0) /\ Len(pts) > WarmUp

\* the tangent vector advanced by one Euler step at the new position
RosslerTangent(self, dt, pos) ==
  LET Advanced(j) ==
        << Add(self.perturbation[1], Mul(j[1], dt)),
           Add(self.perturbation[2], Mul(j[2], dt)),
           Add(self.perturbation[3], Mul(j[3], dt)) >>
  IN  Advanced(RosslerJacobianApply(self.params, pos[1], pos[2], pos[3],
                 self.perturbation[1], self.perturbation[2], self.perturbation[3]))

\* the advanced tangent vector, then the renormalization
RosslerLyapunov(self, dt, pos) ==
  LET Renorm(pert) == Renormalize(self, pert, Length3(pert), RENORM_ATTRACTOR, RosslerDt)
  IN  Renorm(RosslerTangent(self, dt, pos))

RosslerAssign(self, pos, pts, ly) ==
  [ self EXCEPT
      !.position         = pos,
      !.points           = pts,
      !.perturbation     = ly.pert,
      !.lyapunovSum      = ly.sum,
      !.lyapunovSteps    = ly.steps,
      !.lyapunovExponent = ly.exp,
      !.stepsSinceRenorm = ly.since,
      !.poincarePoints   = IF RosslerCrossed(self, pos, pts)
                           THEN PushPoincare(self.poincarePoints, <<pos[1], pos[3]>>)
                           ELSE self.poincarePoints,
      !.prevY            = pos[2] ]

RosslerStepFrom(self, dt, pos) ==
  RosslerAssign(self, pos, Append(self.points, pos), RosslerLyapunov(self, dt, pos))

RosslerStep(self, speed) ==
  RosslerStepFrom(self, Mul(RosslerDt, speed),
                  RosslerGuard(RosslerRk4(self, Mul(RosslerDt, speed))))

RosslerStepResult(self) == self.position

\* mutant: reset leaves the Poincare history in place
RosslerResetKeepsPoincare(self, initialPosition) ==
  [ RosslerConstruct(initialPosition, self.params) EXCEPT
      !.poincarePoints = self.poincarePoints ]

RosslerReset(self, initialPosition) ==
  [ self EXCEPT
      !.position         = initialPosition,
      !.points           = << initialPosition >>,
      !.perturbation     = <<TUnit, 0, 0>>,
      !.lyapunovSum      = 0,
      !.lyapunovSteps    = 0,
      !.lyapunovExponent = 0,
      !.stepsSinceRenorm = 0,
      !.prevY            = initialPosition[2],
      !.poincarePoints   = << >> ]

RosslerUpdateParams(self, partial) ==
  [ self EXCEPT !.params = MergeParams(self.params, partial) ]

\* mutant: the trim also restarts the renormalization interval
RosslerTrimTrailRestartsInterval(self, maxLength) ==
  IF Len(self.points) > maxLength
  THEN [ self EXCEPT !.points = DropFront(self.points, Len(self.points) - maxLength),
                     !.stepsSinceRenorm = 0 ]
  ELSE self

RosslerTrimTrail(self, maxLength) ==
  IF Len(self.points) > maxLength
  THEN [ self EXCEPT !.points = DropFront(self.points, Len(self.points) - maxLength) ]
  ELSE self

RosslerGetSpeed(self) ==
  IF Len(self.points) < 2 THEN 0
  ELSE DistanceTo(self.points[Len(self.points)], self.points[Len(self.points) - 1])

RosslerGetPosition(self) == self.position

RosslerPerturb(self, amount, draws) ==
  [ self EXCEPT !.position =
      [i \in 1..3 |-> Add(self.position[i], Mul(draws[i], amount))] ]

\* ---------------------------------------------------- DoublePendulumSystem
PendulumDt == 1

Eps == 1

PendulumSafe == [theta1 |-> 1, theta2 |-> 1, omega1 |-> 0, omega2 |-> 0]

PendulumPertInit == [theta1 |-> 1, theta2 |-> 0, omega1 |-> 0, omega2 |-> 0]

calculatePositions(params, state) ==
  LET p1 == << Mul(params.length1, Sin(state.theta1)),
               Mul(Neg(params.length1), Cos(state.theta1)) >>
      p2 == << Add(p1[1], Mul(params.length2, Sin(state.theta2))),
               Sub(p1[2], Mul(params.length2, Cos(state.theta2))) >>
  IN  [p1 |-> p1, p2 |-> p2]

TipPoint(pos) == << pos.p2[1], pos.p2[2], 0 >>

PendulumConstruct(initialState, params) ==
  LET pos == calculatePositions(params, initialState)
  IN  [ state            |-> initialState,
        params           |-> params,
        positions        |-> << pos >>,
        points           |-> << TipPoint(pos) >>,
        pertState        |-> PendulumPertInit,
        lyapunovSum      |-> 0,
        lyapunovSteps    |-> 0,
        lyapunovExponent |-> 0,
        stepsSinceRenorm |-> 0,
        prevTheta2       |-> initialState.theta2,
        poincarePoints   |-> << >> ]

accelerations(p, s) ==
  LET m1    == p.mass1
      m2    == p.mass2
      l1    == p.length1
      l2    == p.length2
      g     == p.gravity
      cos12 == Cos(Sub(s.theta1, s.theta2))
      sin12 == Sin(Sub(s.theta1, s.theta2))
      sin1  == Sin(s.theta1)
      sin2  == Sin(s.theta2)
      w1sq  == Mul(s.omega1, s.omega1)
      w2sq  == Mul(s.omega2, s.omega2)
      den1  == Sub(Mul(Add(m1, m2), l1), Mul(Mul(Mul(m2, l1), cos12), cos12))
      den2  == Mul(Div(l2, l1), den1)
      num1  == Sub(Add(Add(Mul(Mul(Mul(Mul(Neg(m2), l1), w1sq), sin12), cos12),
                           Mul(Mul(Mul(m2, g), sin2), cos12)),
                       Mul(Mul(Mul(m2, l2), w2sq), sin12)),
                   Mul(Mul(Add(m1, m2), g), sin1))
      num2  == Sub(Add(Add(Mul(Mul(Mul(Mul(Neg(m2), l2), w2sq), sin12), cos12),
                           Mul(Mul(Mul(Add(m1, m2), g), sin1), cos12)),
                       Mul(Mul(Mul(Add(m1, m2), l1), w1sq), sin12)),
                   Mul(Mul(Add(m1, m2), g), sin2))
  IN  [ alpha1 |-> Sub(Div(num1, den1), Mul(p.damping, s.omega1)),
        alpha2 |-> Sub(Div(num2, den2), Mul(p.damping, s.omega2)) ]

stateDerivative(p, s) ==
  LET Of(a) == [theta1 |-> s.omega1, theta2 |-> s.omega2,
                omega1 |-> a.alpha1, omega2 |-> a.alpha2]
  IN  Of(accelerations(p, s))

\* addStates(a, b, scale) with scale = 0.5 * dt (half) or dt
addStates(a, b, dt, half) ==
  [f \in DOMAIN a |-> Stage(a[f], dt, b[f], half)]

PendulumDiverged(s) ==
  \/ ~isFinite(s.theta1) \/ ~isFinite(s.theta2)
  \/ ~isFinite(s.omega1) \/ ~isFinite(s.omega2)
  \/ Gt(Abs(s.omega1), Threshold) \/ Gt(Abs(s.omega2), Threshold)

PendulumGuard(rk) == IF PendulumDiverged(rk) THEN PendulumSafe ELSE rk

PendulumRk4(self, dt) ==
  LET p  == self.params
      s  == self.state
      Sum(k1, k2, k3, k4) ==
        [f \in DOMAIN s |-> Add(s[f], Rk4Inc(dt, k1[f], k2[f], k3[f], k4[f]))]
      From3(k1, k2, k3) == Sum(k1, k2, k3, stateDerivative(p, addStates(s, k3, dt, FALSE)))
      From2(k1, k2)     == From3(k1, k2, stateDerivative(p, addStates(s, k2, dt, TRUE)))
      From1(k1)         == From2(k1, stateDerivative(p, addStates(s, k1, dt, TRUE)))
  IN  From1(stateDerivative(p, s))

\* wrapped angle ((t % 2 PI) + 2 PI) % 2 PI, in quarter turns
WrapAngle(t) == IF isFinite(t) THEN t % 4 ELSE NaN

Length4(v) ==
  Sqrt(Add(Add(Add(Mul(v.theta1, v.theta1), Mul(v.theta2, v.theta2)),
               Mul(v.omega1, v.omega1)), Mul(v.omega2, v.omega2)))

\* mutant: the warm-up is not looked at
PendulumCrossedNoWarmUp(self, st, pts) ==
  LET normTheta2 == WrapAngle(st.theta2)
      normPrev   == WrapAngle(self.prevTheta2)
  IN  Gt(normPrev, 2) /\ Le(normTheta2, 2) /\ Lt(normTheta2, 1)

PendulumCrossed(self, st, pts) ==
  LET normTheta2 == WrapAngle(st.theta2)
      normPrev   == WrapAngle(self.prevTheta2)
  IN  Gt(normPrev, 2) /\ Le(normTheta2, 2) /\ Lt(normTheta2, 1) /\ Len(pts) > WarmUp

\* the finite-difference tangent step at the new State, then the renormalization
\* the tangent vector advanced by one Euler step along the finite difference of
\* the derivative at the new State
PendulumTangent(self, dt, st) ==
  LET Advanced(dBase, dPert) ==
        [f \in DOMAIN st |->
           Add(self.pertState[f], Mul(Div(Sub(dPert[f], dBase[f]), Eps), dt))]
  IN  Advanced(stateDerivative(self.params, st),
               stateDerivative(self.params,
                 [f \in DOMAIN st |-> Add(st[f], Mul(self.pertState[f], Eps))]))

PendulumLyapunov(self, dt, st) ==
  LET Renorm(pert) == Renormalize(self, pert, Length4(pert), RENORM_PENDULUM, PendulumDt)
  IN  Renorm(PendulumTangent(self, dt, st))

\* what step assigns, given the guarded State st, its positions pos and the
\* Lyapunov block's results ly
PendulumAssign(self, st, pos, pts, ly) ==
  [ self EXCEPT
      !.state            = st,
      !.positions        = Append(self.positions, pos),
      !.points           = pts,
      !.pertState        = ly.pert,
      !.lyapunovSum      = ly.sum,
      !.lyapunovSteps    = ly.steps,
      !.lyapunovExponent = ly.exp,
      !.stepsSinceRenorm = ly.since,
      !.poincarePoints   = IF PendulumCrossed(self, st, pts)
                           THEN PushPoincare(self.poincarePoints, <<st.theta1, st.omega1>>)
                           ELSE self.poincarePoints,
      !.prevTheta2       = st.theta2 ]

\* step from the guarded State on
PendulumStepFrom(self, dt, st) ==
  LET Pushed(pos) ==
        PendulumAssign(self, st, pos, Append(self.points, TipPoint(pos)),
                       PendulumLyapunov(self, dt, st))
  IN  Pushed(calculatePositions(self.params, st))

PendulumStep(self, speed) ==
  PendulumStepFrom(self, Mul(PendulumDt, speed),
                   PendulumGuard(PendulumRk4(self, Mul(PendulumDt, speed))))

\* mutant: step returns the first joint instead of the tip
PendulumStepResultFirstJoint(self) ==
  LET pos == self.positions[Len(self.positions)] IN << pos.p1[1], pos.p1[2], 0 >>

PendulumStepResult(self) == TipPoint(self.positions[Len(self.positions)])

PendulumReset(self, initialState) ==
  LET pos == calculatePositions(self.params, initialState)
  IN  [ self EXCEPT
          !.state            = initialState,
          !.positions        = << pos >>,
          !.points           = << TipPoint(pos) >>,
          !.pertState        = PendulumPertInit,
          !.lyapunovSum      = 0,
          !.lyapunovSteps    = 0,
          !.lyapunovExponent = 0,
          !.stepsSinceRenorm = 0,
          !.prevTheta2       = initialState.theta2,
          !.poincarePoints   = << >> ]

\* mutant: the spread is written the other way round, so the old values win
PendulumUpdateParamsOldWins(self, partial) ==
  [ self EXCEPT !.params = MergeParams(self.params, [k \in {} |-> 0]) ]

PendulumUpdateParams(self, partial) ==
  [ self EXCEPT !.params = MergeParams(self.params, partial) ]

\* mutant: the trim forgets the positions array
PendulumTrimTrailPointsOnly(self, maxLength) ==
  IF Len(self.points) > maxLength
  THEN [ self EXCEPT !.points = DropFront(self.points, Len(self.points) - maxLength) ]
  ELSE self

PendulumTrimTrail(self, maxLength) ==
  IF Len(self.points) > maxLength
  THEN LET excess == Len(self.points) - maxLength
       IN  [ self EXCEPT !.points    = DropFront(self.points, excess),
                         !.positions = DropFront(self.positions, excess) ]
  ELSE self

\* the value of an array read past the end: an object with no p1 and no p2
Undefined == [undefined |-> TRUE]

\* this.positions[this.positions.length - 1]
PendulumGetCurrentPositions(self) ==
  IF Len(self.positions) = 0 THEN Undefined ELSE self.positions[Len(self.positions)]

PendulumGetSpeed(self) ==
  IF Len(self.points) < 2 THEN 0
  ELSE DistanceTo(self.points[Len(self.points)], self.points[Len(self.points) - 1])

\* draws are the values of (Math.random() - 0.5) * 2, one per component:
\* (r - 0.5) * amount * 0.3 is draw * amount * 3/20, (r - 0.5) * amount * 3 is
\* draw * amount * 3/2
PendulumPerturb(self, amount, draws) ==
  [ self EXCEPT !.state =
      [ theta1 |-> Add(self.state.theta1, Scale(Mul(draws[1], amount), 3, 20)),
        theta2 |-> Add(self.state.theta2, Scale(Mul(draws[2], amount), 3, 20)),
        omega1 |-> Add(self.state.omega1, Scale(Mul(draws[3], amount), 3, 2)),
        omega2 |-> Add(self.state.omega2, Scale(Mul(draws[4], amount), 3, 2)) ] ]

\* ------------------------------------------------------------ the callers
VARIABLES kind, sys, fresh, op, arg, ret, fired, calls, refs, store, systemRef

vars == <<kind, sys, fresh, op, arg, ret, fired, calls, refs, store, systemRef>>

\* inputs of the explored calls
Speeds == {1, 2}

TrimLengths == {0, 2}

Amounts == {1, MaxNum}

Draws3 == { <<0, 0, 0>>, <<1, 0, -1>> }

Draws4 == { <<0, 0, 0, 0>>, <<1, 0, 0, -1>> }

LorenzPositions == { <<1, 1, 1>>, <<-2, -2, 1>> }

LorenzParamSets == { [sigma |-> 1, rho |-> 3, beta |-> 4] }

LorenzPartials == { [k \in {"sigma"} |-> 0], [k \in {"rho", "beta"} |-> 1] }

RosslerPositions == { <<1, 1, 1>>, <<2, -3, 0>> }

RosslerParamSets == { [a |-> 1, b |-> 1, c |-> 2] }

RosslerPartials == { [k \in {"c"} |-> 4], [k \in {"a", "b"} |-> 0] }

PendulumStates ==
  { [theta1 |-> 1, theta2 |-> 1, omega1 |-> 0, omega2 |-> 0],
    [theta1 |-> 0, theta2 |-> 3, omega1 |-> 1, omega2 |-> 1] }

PendulumParamSets ==
  { [mass1 |-> 1, mass2 |-> 1, length1 |-> 1, length2 |-> 1, gravity |-> 1, damping |-> 0],
    [mass1 |-> 1, mass2 |-> 1, length1 |-> MaxNum, length2 |-> MaxNum, gravity |-> 1,
     damping |-> 0] }

PendulumPartials == { [k \in {"gravity"} |-> 2], [k \in {"damping", "mass2"} |-> 1] }

\* which objects the references in play point to: sharedParams, whether the
\* params fields of sys and fresh refer to one object; actor, the instance the
\* last call was made on; returned, what the value a step returned to the caller
\* is (nothing held, the instance's position object, or an object of its own),
\* with its content now and when it was returned; for a snapshot or an
\* initial-state argument the caller holds, returned says whether it is an
\* object of the caller's own or a field of the instance ("alias"), and what
\* names the field it was taken from
NoRefs ==
  [sharedParams |-> FALSE, actor |-> 0, returned |-> "none", what |-> "none",
   value |-> << >>, original |-> << >>]

\* the fields of the application store that drive an instance, with the
\* number of resetSimulation timers that have not fired yet
NoStore == [isPlaying |-> TRUE, trailLength |-> 0, resetCounter |-> 0, timers |-> 0]

\* the module-level reference to the active instance; 0 and "null" stand for
\* null
NoSystem == [system |-> 0, type |-> "null"]

\* calls made so far; resets, recorded (pairs recorded since the last reset),
\* time (the sum of the speed multipliers stepped with since the last reset,
\* that is the simulated time in units of the base dt) and sinceReset (steps
\* since the last reset) are kept for the record only
NoCalls ==
  [steps |-> 0, trims |-> 0, other |-> 0, resets |-> 0, recorded |-> 0, time |-> 0,
   sinceReset |-> 0]

\* the constructors' default initial State
DefaultState(k) ==
  CASE k = "lorenz"   -> <<1, 1, 1>>
    [] k = "rossler"  -> <<1, 1, 1>>
    [] k = "pendulum" -> [theta1 |-> 1, theta2 |-> 1, omega1 |-> 0, omega2 |-> 0]

Construct(k, s, p) ==
  CASE k = "lorenz"   -> LorenzConstruct(s, p)
    [] k = "rossler"  -> RosslerConstruct(s, p)
    [] k = "pendulum" -> PendulumConstruct(s, p)

Init ==
  /\ kind \in {"lorenz", "rossler", "pendulum"}
  /\ \E s \in {DefaultState(kind)},
        p \in (CASE kind = "lorenz" -> LorenzParamSets
                 [] kind = "rossler" -> RosslerParamSets
                 [] kind = "pendulum" -> PendulumParamSets) :
       /\ sys = Construct(kind, s, p)
       /\ arg = s
  /\ fresh = sys
  /\ op = "new"
  /\ ret = << >>
  /\ fired = FALSE
  /\ calls = NoCalls
  /\ refs = NoRefs
  /\ store = NoStore /\ systemRef = NoSystem

CanStep(speed) ==
  /\ calls.steps < MaxSteps
  /\ speed # 1 => calls.other < MaxOther

CountStep(speed, crossed) ==
  [calls EXCEPT !.steps = @ + 1, !.other = IF speed # 1 THEN @ + 1 ELSE @,
                !.recorded = IF crossed THEN @ + 1 ELSE @,
                !.time = @ + speed, !.sinceReset = @ + 1]

CanOther == calls.other < MaxOther

CountOther == [calls EXCEPT !.other = @ + 1]

CountReset ==
  [calls EXCEPT !.other = @ + 1, !.resets = @ + 1, !.recorded = 0, !.time = 0,
                !.sinceReset = 0]

CountTrim == [calls EXCEPT !.other = @ + 1, !.trims = @ + 1]

\* ---- LorenzSystem calls
LorenzStepCall ==
  /\ kind = "lorenz"
  /\ \E speed \in Speeds :
       /\ CanStep(speed)
       /\ LET Integrated(rk) ==
                 /\ sys' = LorenzStepFrom(sys, Mul(LorenzDt, speed), LorenzGuard(rk))
                 /\ fired' = LorenzDiverged(rk)
          IN  Integrated(LorenzRk4(sys, Mul(LorenzDt, speed)))
       /\ fresh' = IF fresh = sys THEN sys' ELSE LorenzStep(fresh, speed)
       /\ ret' = LorenzStepResult(sys')
       /\ op' = "step" /\ arg' = speed /\ calls' = CountStep(speed, LorenzCrossed(sys, sys'.position, sys'.points))
  /\ UNCHANGED <<kind, refs, store, systemRef>>

LorenzResetCall ==
  /\ kind = "lorenz" /\ CanOther
  /\ \E s \in LorenzPositions :
       /\ sys' = LorenzReset(sys, s)
       /\ fresh' = LorenzConstruct(s, sys.params)
       /\ op' = "reset" /\ arg' = s
  /\ ret' = << >> /\ fired' = FALSE /\ calls' = CountReset
  /\ UNCHANGED <<kind, refs, store, systemRef>>

LorenzUpdateParamsCall ==
  /\ kind = "lorenz" /\ CanOther
  /\ \E partial \in LorenzPartials :
       /\ sys' = LorenzUpdateParams(sys, partial)
       /\ fresh' = LorenzUpdateParams(fresh, partial)
       /\ op' = "updateParams" /\ arg' = partial
  /\ ret' = << >> /\ fired' = FALSE /\ calls' = CountOther
  /\ UNCHANGED <<kind, refs, store, systemRef>>

LorenzTrimTrailCall ==
  /\ kind = "lorenz" /\ CanOther
  /\ \E maxLength \in TrimLengths :
       /\ sys' = LorenzTrimTrail(sys, maxLength)
       /\ fresh' = LorenzTrimTrail(fresh, maxLength)
       /\ op' = "trimTrail" /\ arg' = maxLength
  /\ ret' = << >> /\ fired' = FALSE /\ calls' = CountTrim
  /\ UNCHANGED <<kind, refs, store, systemRef>>

LorenzPerturbCall ==
  /\ kind = "lorenz" /\ CanOther
  /\ \E amount \in Amounts, draws \in Draws3 :
       /\ sys' = LorenzPerturb(sys, amount, draws)
       /\ fresh' = LorenzPerturb(fresh, amount, draws)
       /\ op' = "perturb" /\ arg' = amount
  /\ ret' = << >> /\ fired' = FALSE /\ calls' = CountOther
  /\ UNCHANGED <<kind, refs, store, systemRef>>

\* ---- RosslerSystem calls
RosslerStepCall ==
  /\ kind = "rossler"
  /\ \E speed \in Speeds :
       /\ CanStep(speed)
       /\ LET Integrated(rk) ==
                 /\ sys' = RosslerStepFrom(sys, Mul(RosslerDt, speed), RosslerGuard(rk))
                 /\ fired' = RosslerDiverged(rk)
          IN  Integrated(RosslerRk4(sys, Mul(RosslerDt, speed)))
       /\ fresh' = IF fresh = sys THEN sys' ELSE RosslerStep(fresh, speed)
       /\ ret' = RosslerStepResult(sys')
       /\ op' = "step" /\ arg' = speed /\ calls' = CountStep(speed, RosslerCrossed(sys, sys'.position, sys'.points))
  /\ UNCHANGED <<kind, refs, store, systemRef>>

RosslerResetCall ==
  /\ kind = "rossler" /\ CanOther
  /\ \E s \in RosslerPositions :
       /\ sys' = RosslerReset(sys, s)
       /\ fresh' = RosslerConstruct(s, sys.params)
       /\ op' = "reset" /\ arg' = s
  /\ ret' = << >> /\ fired' = FALSE /\ calls' = CountReset
  /\ UNCHANGED <<kind, refs, store, systemRef>>

RosslerUpdateParamsCall ==
  /\ kind = "rossler" /\ CanOther
  /\ \E partial \in RosslerPartials :
       /\ sys' = RosslerUpdateParams(sys, partial)
       /\ fresh' = RosslerUpdateParams(fresh, partial)
       /\ op' = "updateParams" /\ arg' = partial
  /\ ret' = << >> /\ fired' = FALSE /\ calls' = CountOther
  /\ UNCHANGED <<kind, refs, store, systemRef>>

RosslerTrimTrailCall ==
  /\ kind = "rossler" /\ CanOther
  /\ \E maxLength \in TrimLengths :
       /\ sys' = RosslerTrimTrail(sys, maxLength)
       /\ fresh' = RosslerTrimTrail(fresh, maxLength)
       /\ op' = "trimTrail" /\ arg' = maxLength
  /\ ret' = << >> /\ fired' = FALSE /\ calls' = CountTrim
  /\ UNCHANGED <<kind, refs, store, systemRef>>

RosslerPerturbCall ==
  /\ kind = "rossler" /\ CanOther
  /\ \E amount \in Amounts, draws \in Draws3 :
       /\ sys' = RosslerPerturb(sys, amount, draws)
       /\ fresh' = RosslerPerturb(fresh, amount, draws)
       /\ op' = "perturb" /\ arg' = amount
  /\ ret' = << >> /\ fired' = FALSE /\ calls' = CountOther
  /\ UNCHANGED <<kind, refs, store, systemRef>>

\* ---- DoublePendulumSystem calls
PendulumStepCall ==
  /\ kind = "pendulum"
  /\ \E speed \in Speeds :
       /\ CanStep(speed)
       /\ LET Integrated(rk) ==
                 /\ sys' = PendulumStepFrom(sys, Mul(PendulumDt, speed), PendulumGuard(rk))
                 /\ fired' = PendulumDiverged(rk)
          IN  Integrated(PendulumRk4(sys, Mul(PendulumDt, speed)))
       /\ fresh' = IF fresh = sys THEN sys' ELSE PendulumStep(fresh, speed)
       /\ ret' = PendulumStepResult(sys')
       /\ op' = "step" /\ arg' = speed /\ calls' = CountStep(speed, PendulumCrossed(sys, sys'.state, sys'.points))
  /\ UNCHANGED <<kind, refs, store, systemRef>>

PendulumResetCall ==
  /\ kind = "pendulum" /\ CanOther
  /\ \E s \in PendulumStates :
       /\ sys' = PendulumReset(sys, s)
       /\ fresh' = PendulumConstruct(s, sys.params)
       /\ op' = "reset" /\ arg' = s
  /\ ret' = << >> /\ fired' = FALSE /\ calls' = CountReset
  /\ UNCHANGED <<kind, refs, store, systemRef>>

PendulumUpdateParamsCall ==
  /\ kind = "pendulum" /\ CanOther
  /\ \E partial \in PendulumPartials :
       /\ sys' = PendulumUpdateParams(sys, partial)
       /\ fresh' = PendulumUpdateParams(fresh, partial)
       /\ op' = "updateParams" /\ arg' = partial
  /\ ret' = << >> /\ fired' = FALSE /\ calls' = CountOther
  /\ UNCHANGED <<kind, refs, store, systemRef>>

PendulumTrimTrailCall ==
  /\ kind = "pendulum" /\ CanOther
  /\ \E maxLength \in TrimLengths :
       /\ sys' = PendulumTrimTrail(sys, maxLength)
       /\ fresh' = PendulumTrimTrail(fresh, maxLength)
       /\ op' = "trimTrail" /\ arg' = maxLength
  /\ ret' = << >> /\ fired' = FALSE /\ calls' = CountTrim
  /\ UNCHANGED <<kind, refs, store, systemRef>>

PendulumPerturbCall ==
  /\ kind = "pendulum" /\ CanOther
  /\ \E amount \in Amounts, draws \in Draws4 :
       /\ sys' = PendulumPerturb(sys, amount, draws)
       /\ fresh' = PendulumPerturb(fresh, amount, draws)
       /\ op' = "perturb" /\ arg' = amount
  /\ ret' = << >> /\ fired' = FALSE /\ calls' = CountOther
  /\ UNCHANGED <<kind, refs, store, systemRef>>

Next ==
  \/ LorenzStepCall \/ LorenzResetCall \/ LorenzUpdateParamsCall
  \/ LorenzTrimTrailCall \/ LorenzPerturbCall
  \/ RosslerStepCall \/ RosslerResetCall \/ RosslerUpdateParamsCall
  \/ RosslerTrimTrailCall \/ RosslerPerturbCall
  \/ PendulumStepCall \/ PendulumResetCall \/ PendulumUpdateParamsCall
  \/ PendulumTrimTrailCall \/ PendulumPerturbCall

Spec == Init /\ [][Next]_vars

\* ------------------------------------------------------- shared vocabulary
\* the State of an instance as a sequence of its components
StateOf(k, s) ==
  IF k = "pendulum"
  THEN << s.state.theta1, s.state.theta2, s.state.omega1, s.state.omega2 >>
  ELSE s.position

AllFinite(seq) == \A i \in DOMAIN seq : isFinite(seq[i])

Last(seq) == seq[Len(seq)]

\* the last m elements of seq, in order
LastN(seq, m) == [i \in 1..m |-> seq[Len(seq) - m + i]]

Min(a, b) == IF a <= b THEN a ELSE b

\* the position derived from a State s under parameters p
DerivedPosition(k, p, s) ==
  IF k = "pendulum"
  THEN << Add(Mul(p.length1, Sin(s.theta1)), Mul(p.length2, Sin(s.theta2))),
          Sub(Mul(Neg(p.length1), Cos(s.theta1)), Mul(p.length2, Cos(s.theta2))),
          0 >>
  ELSE s

\* the pair a crossing records, taken from the current State
SectionPair ==
  CASE kind = "lorenz"   -> << sys.position[1], sys.position[2] >>
    [] kind = "rossler"  -> << sys.position[1], sys.position[3] >>
    [] kind = "pendulum" -> << sys.state.theta1, sys.state.omega1 >>

TrailFinite == \A i \in DOMAIN sys.points : AllFinite(sys.points[i])

\* the pendulum's arm lengths are small enough for the tip position not to overflow
LengthsInRange == isFinite(Add(Abs(sys.params.length1), Abs(sys.params.length2)))

TrimTrail(k, s, maxLength) ==
  CASE k = "lorenz"   -> LorenzTrimTrail(s, maxLength)
    [] k = "rossler"  -> RosslerTrimTrail(s, maxLength)
    [] k = "pendulum" -> PendulumTrimTrail(s, maxLength)

\* ------------------------------------------------------------------ claims

\* C1 as stated: constructed with a finite State and finite parameters, after
\* any number of step calls every component of every Trail point is finite.
C1_AsStated == op = "step" => TrailFinite

\* C1, amended: every component of every Trail point is finite for Lorenz and
\* Rossler, and for the pendulum whenever the arm lengths are in range (the
\* sum of their magnitudes does not overflow); the guard runs before the append,
\* so a diverged integration result is never appended.
C1_TrailFinite == (kind = "pendulum" => LengthsInRange) => TrailFinite

C1_Witness ==
  /\ op = "step" /\ fired /\ Len(sys.points) >= 3
  /\ kind = "pendulum" => LengthsInRange

\* C2 as stated: after step returns no State component is non-finite or exceeds
\* the threshold in magnitude.
C2_AsStated ==
  op = "step" =>
    \A i \in DOMAIN StateOf(kind, sys) :
      /\ isFinite(StateOf(kind, sys)[i])
      /\ Abs(StateOf(kind, sys)[i]) <= Threshold

\* C3 as stated: after any public method returns every State component is finite.
C3_AsStated == AllFinite(StateOf(kind, sys))

\* C4: trimTrail(k) leaves the last min(n, k) points of the prior Trail in their
\* order; a second trimTrail(k), or any trimTrail(k) with n <= k, changes nothing.
C4_TrimKeepsNewest ==
  [][op' = "trimTrail" =>
       /\ sys'.points = LastN(sys.points, Min(Len(sys.points), arg'))
       /\ TrimTrail(kind, sys', arg') = sys'
       /\ Len(sys.points) <= arg' => sys' = sys]_vars

C4_Witness ==
  /\ op = "trimTrail" /\ arg >= 1 /\ Len(sys.points) = arg
  /\ calls.resets = 0 /\ calls.steps + 1 > arg

\* C5: after reset(s) the Trail is exactly the position derived from s,
\* lyapunovExponent is 0 and poincarePoints is empty; the pendulum has one
\* positions entry and getState() is s.
C5_ResetRestores ==
  op = "reset" =>
    /\ sys.points = << DerivedPosition(kind, sys.params, arg) >>
    /\ sys.lyapunovExponent = 0
    /\ sys.poincarePoints = << >>
    /\ kind = "pendulum" => (Len(sys.positions) = 1 /\ sys.state = arg)

C5_Witness == op = "reset" /\ calls.steps >= 3 /\ calls.trims = 1

\* C6: after reset(s) the instance behaves as a newly constructed one with
\* initial State s and the same parameters: driven by the same calls, the two
\* agree on the Trail, lyapunovExponent, poincarePoints and every hidden
\* accumulator.
C6_ResetIsFresh == calls.resets > 0 => sys = fresh

C6_Witness ==
  /\ calls.resets > 0 /\ op = "step" /\ calls.steps = MaxSteps
  /\ sys.lyapunovSteps >= 1

\* C7: poincarePoints never gets shorter except by reset: trimTrail,
\* updateParams and perturb leave it unchanged, a step leaves it unchanged,
\* grows it by one or keeps it at the cap.
C7_SectionOnlyGrows ==
  [][/\ op' \in {"trimTrail", "updateParams", "perturb"} =>
          sys'.poincarePoints = sys.poincarePoints
     /\ op' = "step" =>
          \/ sys'.poincarePoints = sys.poincarePoints
          \/ Len(sys'.poincarePoints) = Len(sys.poincarePoints) + 1
          \/ /\ Len(sys.poincarePoints) = MAX_POINCARE
             /\ Len(sys'.poincarePoints) = MAX_POINCARE
     /\ op' # "reset" => Len(sys'.poincarePoints) >= Len(sys.poincarePoints)]_vars

C7_Witness ==
  /\ op \in {"trimTrail", "updateParams", "perturb"}
  /\ Len(sys.poincarePoints) >= 1

\* C8: poincarePoints never exceeds the cap, and a pair recorded at the cap
\* pushes out the oldest one: the most recently recorded pairs remain, in
\* recording order.
C8_SectionCapped ==
  /\ [](Len(sys.poincarePoints) <= MAX_POINCARE)
  /\ [][(op' = "step" /\ calls'.recorded > calls.recorded) =>
          /\ sys'.poincarePoints =
               LastN(Append(sys.poincarePoints, SectionPair'),
                     Min(Len(sys.poincarePoints) + 1, MAX_POINCARE))]_vars

C8_Witness ==
  /\ op = "step" /\ calls.recorded > MAX_POINCARE
  /\ Len(sys.poincarePoints) = MAX_POINCARE

\* C9: every step appends exactly one point to the Trail (and one pair to the
\* pendulum's positions), also when the guard recovers; the appended point is
\* the position derived from the State step leaves and the value step returns.
C9_StepAppendsOne ==
  [][op' = "step" =>
       /\ Len(sys'.points) = Len(sys.points) + 1
       /\ SubSeq(sys'.points, 1, Len(sys.points)) = sys.points
       /\ kind = "pendulum" =>
            /\ Len(sys'.positions) = Len(sys.positions) + 1
            /\ SubSeq(sys'.positions, 1, Len(sys.positions)) = sys.positions
       /\ Last(sys'.points) =
            DerivedPosition(kind, sys'.params,
                            IF kind = "pendulum" THEN sys'.state ELSE sys'.position)
       /\ ret' = Last(sys'.points)]_vars

C9_Witness == op = "step" /\ fired /\ Len(sys.points) = calls.steps + 1 /\ calls.steps >= 2

\* C10: the pendulum's positions and points have the same length, and each
\* point is the tip (p2.x, p2.y, 0) of the positions entry at its index.
C10_PositionsParallel ==
  kind = "pendulum" =>
    /\ Len(sys.positions) = Len(sys.points)
    /\ \A i \in DOMAIN sys.points :
         sys.points[i] = << sys.positions[i].p2[1], sys.positions[i].p2[2], 0 >>

C10_Witness ==
  /\ kind = "pendulum" /\ op = "step" /\ calls.trims = 1 /\ calls.resets = 1
  /\ Len(sys.points) >= 2 /\ Len(sys.points) < calls.steps

\* the base dt of the instance's system
BaseDt ==
  CASE kind = "lorenz"   -> LorenzDt
    [] kind = "rossler"  -> RosslerDt
    [] kind = "pendulum" -> PendulumDt

\* C11 as stated: a step that renormalizes leaves lyapunovExponent equal to the
\* accumulated log-norm sum divided by the simulated time elapsed since the
\* last reset, the sum of baseDt * speed over the steps taken.
C11_AsStated ==
  [][(op' = "step" /\ sys'.lyapunovSteps > sys.lyapunovSteps) =>
       sys'.lyapunovExponent = Div(sys'.lyapunovSum, Mul(calls'.time, BaseDt))]_vars

GetSpeed(k, s) ==
  CASE k = "lorenz"   -> LorenzGetSpeed(s)
    [] k = "rossler"  -> RosslerGetSpeed(s)
    [] k = "pendulum" -> PendulumGetSpeed(s)

\* the position derived from the State of instance s
PositionOf(k, s) ==
  DerivedPosition(k, s.params, IF k = "pendulum" THEN s.state ELSE s.position)

\* C12 as stated: immediately after any step that changes the position,
\* getSpeed() is strictly positive, whatever calls preceded the step.
C12_AsStated ==
  [][(op' = "step" /\ PositionOf(kind, sys') # PositionOf(kind, sys)) =>
       Gt(GetSpeed(kind, sys'), 0)]_vars

\* C12, amended: after a step that leaves at least two Trail points, the last
\* two of them finite and different, getSpeed() is strictly positive; after a
\* step that leaves fewer than two points it is 0.
C12_SpeedPositive ==
  op = "step" =>
    /\ Len(sys.points) < 2 => GetSpeed(kind, sys) = 0
    /\ ( /\ Len(sys.points) >= 2
         /\ AllFinite(sys.points[Len(sys.points)])
         /\ AllFinite(sys.points[Len(sys.points) - 1])
         /\ sys.points[Len(sys.points)] # sys.points[Len(sys.points) - 1] )
       => Gt(GetSpeed(kind, sys), 0)

C12_Witness ==
  /\ op = "step" /\ calls.trims >= 1 /\ Len(sys.points) = 2
  /\ AllFinite(sys.points[1]) /\ AllFinite(sys.points[2])
  /\ sys.points[1] # sys.points[2]
  /\ Gt(GetSpeed(kind, sys), 0)

\* C13 as stated: with fewer than 2 Trail points, an empty Trail included,
\* getSpeed() is 0 and the position queries return a stored value: getPosition
\* the current position, the pendulum's getCurrentPositions a p1/p2 pair.
C13_AsStated ==
  Len(sys.points) < 2 =>
    /\ GetSpeed(kind, sys) = 0
    /\ kind = "lorenz" => LorenzGetPosition(sys) = sys.position
    /\ kind = "rossler" => RosslerGetPosition(sys) = sys.position
    /\ kind = "pendulum" => PendulumGetCurrentPositions(sys) # Undefined

\* the name of the field holding the State
StateField == IF kind = "pendulum" THEN "state" ELSE "position"

\* C14 as stated: for every amount > 0 and every finite State, perturb(amount)
\* changes at least one State component and leaves every component finite,
\* whatever the random draws.
C14_AsStated ==
  [][(op' = "perturb" /\ arg' > 0 /\ AllFinite(StateOf(kind, sys))) =>
       /\ StateOf(kind, sys') # StateOf(kind, sys)
       /\ AllFinite(StateOf(kind, sys'))]_vars

\* C15: perturb modifies State only: Trail, positions, poincarePoints,
\* lyapunovExponent, the tangent vector, the sum and counters, the prev
\* trackers and the parameters are what they were before the call.
C15_PerturbFrame ==
  [][op' = "perturb" =>
       \A f \in DOMAIN sys \ {StateField} : sys'[f] = sys[f]]_vars

C15_Witness ==
  /\ op = "perturb"
  /\ Len(sys.points) >= 2
  /\ sys.lyapunovSteps >= 1
  /\ PositionOf(kind, sys) # Last(sys.points)

\* C17: trimTrail(k) changes nothing but the Trail (and the pendulum's
\* positions): State, parameters, tangent vector, Lyapunov sum, counters and
\* exponent, prev trackers and poincarePoints are what they were.
C17_TrimFrame ==
  [][op' = "trimTrail" =>
       \A f \in DOMAIN sys \ {"points", "positions"} : sys'[f] = sys[f]]_vars

C17_Witness ==
  /\ op = "trimTrail" /\ arg = 2
  /\ calls.trims = 1 /\ calls.resets = 0 /\ calls.steps >= 2
  /\ Len(sys.points) = 2
  /\ sys.stepsSinceRenorm >= 1

Step(k, s, speed) ==
  CASE k = "lorenz"   -> LorenzStep(s, speed)
    [] k = "rossler"  -> RosslerStep(s, speed)
    [] k = "pendulum" -> PendulumStep(s, speed)

\* C16: updateParams(partial) replaces exactly the supplied keys and keeps the
\* others; State, Trail, tangent vector, Lyapunov accumulators and
\* poincarePoints are unchanged; the step that follows integrates with the
\* merged parameters: it leaves the State that a new instance built from the
\* same State and the merged parameters reaches by the same step.
C16_UpdateParamsMerges ==
  [][/\ op' = "updateParams" =>
          /\ \A key \in DOMAIN sys.params :
                sys'.params[key] = IF key \in DOMAIN arg' THEN arg'[key] ELSE sys.params[key]
          /\ DOMAIN sys'.params = DOMAIN sys.params
          /\ \A f \in DOMAIN sys \ {"params"} : sys'[f] = sys[f]
     /\ (op = "updateParams" /\ op' = "step") =>
          StateOf(kind, sys') =
            StateOf(kind, Step(kind, Construct(kind, sys[StateField], sys.params), arg'))]_vars

C16_Witness ==
  /\ op = "step" /\ calls.steps = 1 /\ calls.resets = 0
  /\ sys.params \notin (LorenzParamSets \cup RosslerParamSets \cup PendulumParamSets)
  /\ StateOf(kind, sys) # StateOf(kind, Construct(kind, DefaultState(kind), sys.params))

Tangent(k, s) == IF k = "pendulum" THEN s.pertState ELSE s.perturbation

\* the tangent vector of s advanced by the step that left the State st
TangentAdvanced(k, s, dt, st) ==
  CASE k = "lorenz"   -> LorenzTangent(s, dt, st)
    [] k = "rossler"  -> RosslerTangent(s, dt, st)
    [] k = "pendulum" -> PendulumTangent(s, dt, st)

RenormInterval == IF kind = "pendulum" THEN RENORM_PENDULUM ELSE RENORM_ATTRACTOR

\* list is the section old, or old with one pair pushed and capped from the front
SectionKept(old, list) ==
  \/ list = old
  \/ /\ Len(list) = Min(Len(old) + 1, MAX_POINCARE)
     /\ \A i \in 1..(Len(list) - 1) : list[i] = old[Len(old) - (Len(list) - 1) + i]

\* C18: a step in which the guard fires replaces State only: the Trail and the
\* section keep their entries, the tangent vector is advanced as in any step,
\* the interval counter goes on counting, sum, count and exponent stay or
\* take the renormalization's values; and lyapunovExponent is set back to 0 by
\* reset and by no other call: any other change of it is a renormalizing
\* step's assignment of sum / (count * interval * dt).
C18_GuardReplacesStateOnly ==
  [][/\ (op' = "step" /\ fired') =>
          /\ sys'.points = Append(sys.points, Last(sys'.points))
          /\ kind = "pendulum" => sys'.positions = Append(sys.positions, Last(sys'.positions))
          /\ sys'.params = sys.params
          /\ SectionKept(sys.poincarePoints, sys'.poincarePoints)
          /\ sys'.stepsSinceRenorm =
               IF sys.stepsSinceRenorm + 1 >= RenormInterval THEN 0
               ELSE sys.stepsSinceRenorm + 1
          /\ sys'.lyapunovSteps \in {sys.lyapunovSteps, sys.lyapunovSteps + 1}
          /\ sys'.lyapunovSteps = sys.lyapunovSteps =>
               /\ sys'.lyapunovSum = sys.lyapunovSum
               /\ sys'.lyapunovExponent = sys.lyapunovExponent
               /\ Tangent(kind, sys') =
                    TangentAdvanced(kind, sys, Mul(BaseDt, arg'), sys'[StateField])
          /\ sys'.lyapunovSteps # sys.lyapunovSteps =>
               sys'.lyapunovExponent =
                 Div(sys'.lyapunovSum, Mul(Mul(sys'.lyapunovSteps, RenormInterval), BaseDt))
     /\ sys'.lyapunovExponent # sys.lyapunovExponent =>
          \/ op' = "reset" /\ sys'.lyapunovExponent = 0
          \/ /\ op' = "step"
             /\ sys'.lyapunovSteps = sys.lyapunovSteps + 1
             /\ sys'.lyapunovExponent =
                  Div(sys'.lyapunovSum,
                      Mul(Mul(sys'.lyapunovSteps, RenormInterval), BaseDt))]_vars

C18_Witness ==
  /\ op = "step" /\ fired
  /\ calls.resets = 0
  /\ Len(sys.points) >= 3
  /\ sys.lyapunovExponent # 0
  /\ sys.stepsSinceRenorm # 0

\* ------------------------------------------- two instances, one params object
Reset(k, s, st) ==
  CASE k = "lorenz"   -> LorenzReset(s, st)
    [] k = "rossler"  -> RosslerReset(s, st)
    [] k = "pendulum" -> PendulumReset(s, st)

UpdateParams(k, s, partial) ==
  CASE k = "lorenz"   -> LorenzUpdateParams(s, partial)
    [] k = "rossler"  -> RosslerUpdateParams(s, partial)
    [] k = "pendulum" -> PendulumUpdateParams(s, partial)

\* this.params = params: the constructor keeps the caller's object, so two
\* instances built from one object refer to it both
ConstructorSharesParams == TRUE

\* mutant: the merge is written into the object the field refers to
UpdateParamsInPlaceShares(shared) == shared

\* this.params = { ...this.params, ...newParams }: the field refers to a new
\* object that no other instance has
UpdateParamsShares(shared) == FALSE

States(k) ==
  CASE k = "lorenz"   -> LorenzPositions
    [] k = "rossler"  -> RosslerPositions
    [] k = "pendulum" -> PendulumStates

ParamSets(k) ==
  CASE k = "lorenz"   -> LorenzParamSets
    [] k = "rossler"  -> RosslerParamSets
    [] k = "pendulum" -> PendulumParamSets

Partials(k) ==
  CASE k = "lorenz"   -> LorenzPartials
    [] k = "rossler"  -> RosslerPartials
    [] k = "pendulum" -> PendulumPartials

Instance(i) == IF i = 1 THEN sys ELSE fresh

CanPair == calls.steps + calls.other < MaxPairCalls

\* the call on instance i left it as new; the other instance is untouched
PairBecomes(i, new) ==
  /\ sys' = IF i = 1 THEN new ELSE sys
  /\ fresh' = IF i = 2 THEN new ELSE fresh

InitPair ==
  /\ kind \in {"lorenz", "rossler", "pendulum"}
  /\ \E p \in ParamSets(kind) :
       /\ sys = Construct(kind, DefaultState(kind), p)
       /\ fresh = Construct(kind, DefaultState(kind), p)
  /\ op = "new" /\ arg = DefaultState(kind) /\ ret = << >> /\ fired = FALSE
  /\ calls = NoCalls
  /\ refs = [NoRefs EXCEPT !.sharedParams = ConstructorSharesParams]
  /\ store = NoStore /\ systemRef = NoSystem

PairStep ==
  /\ CanPair
  /\ \E i \in {1, 2}, speed \in Speeds :
       /\ PairBecomes(i, Step(kind, Instance(i), speed))
       /\ op' = "step" /\ arg' = speed
       /\ refs' = [refs EXCEPT !.actor = i]
  /\ ret' = << >> /\ fired' = FALSE
  /\ calls' = [calls EXCEPT !.steps = @ + 1]
  /\ UNCHANGED <<kind, store, systemRef>>

PairTrimTrail ==
  /\ CanPair
  /\ \E i \in {1, 2}, maxLength \in TrimLengths :
       /\ PairBecomes(i, TrimTrail(kind, Instance(i), maxLength))
       /\ op' = "trimTrail" /\ arg' = maxLength
       /\ refs' = [refs EXCEPT !.actor = i]
  /\ ret' = << >> /\ fired' = FALSE
  /\ calls' = [calls EXCEPT !.other = @ + 1, !.trims = @ + 1]
  /\ UNCHANGED <<kind, store, systemRef>>

PairReset ==
  /\ CanPair
  /\ \E i \in {1, 2}, s \in States(kind) :
       /\ PairBecomes(i, Reset(kind, Instance(i), s))
       /\ op' = "reset" /\ arg' = s
       /\ refs' = [refs EXCEPT !.actor = i]
  /\ ret' = << >> /\ fired' = FALSE
  /\ calls' = [calls EXCEPT !.other = @ + 1, !.resets = @ + 1]
  /\ UNCHANGED <<kind, store, systemRef>>

\* the other instance sees the merged values when the object written is still
\* the one it refers to
PairUpdateParams ==
  /\ CanPair
  /\ \E i \in {1, 2}, partial \in Partials(kind) :
       LET Updated(new) ==
             /\ sys' = IF i = 1 THEN new
                       ELSE IF refs'.sharedParams THEN [sys EXCEPT !.params = new.params]
                       ELSE sys
             /\ fresh' = IF i = 2 THEN new
                         ELSE IF refs'.sharedParams THEN [fresh EXCEPT !.params = new.params]
                         ELSE fresh
       IN  /\ refs' = [refs EXCEPT !.actor = i,
                                   !.sharedParams = UpdateParamsShares(refs.sharedParams)]
           /\ Updated(UpdateParams(kind, Instance(i), partial))
           /\ op' = "updateParams" /\ arg' = partial
  /\ ret' = << >> /\ fired' = FALSE
  /\ calls' = [calls EXCEPT !.other = @ + 1]
  /\ UNCHANGED <<kind, store, systemRef>>

NextPair == PairStep \/ PairTrimTrail \/ PairReset \/ PairUpdateParams

SpecPair == InitPair /\ [][NextPair]_vars

\* C19: two instances of one type, constructed from the same parameter
\* object, share no mutable state: under any interleaving of step, trimTrail,
\* reset and updateParams a call on one instance leaves every field of the
\* other, its parameters included, as it was.
C19_InstancesIndependent ==
  [][/\ refs'.actor = 1 => fresh' = fresh
     /\ refs'.actor = 2 => sys' = sys]_vars

C19_Witness ==
  /\ refs.actor = 2
  /\ sys.params # fresh.params
  /\ Len(sys.points) >= 2 /\ Len(fresh.points) >= 2
  /\ sys # fresh

\* ------------------------------------------- the value a step call returned
Perturb(k, s, amount, draws) ==
  CASE k = "lorenz"   -> LorenzPerturb(s, amount, draws)
    [] k = "rossler"  -> RosslerPerturb(s, amount, draws)
    [] k = "pendulum" -> PendulumPerturb(s, amount, draws)

StepResult(k, s) ==
  CASE k = "lorenz"   -> LorenzStepResult(s)
    [] k = "rossler"  -> RosslerStepResult(s)
    [] k = "pendulum" -> PendulumStepResult(s)

\* what the return statement of step hands out: Lorenz this.position itself,
\* Rossler this.position.clone(), the pendulum a new Vector3
StepReturns(k) ==
  CASE k = "lorenz"   -> "position"
    [] k = "rossler"  -> "own"
    [] k = "pendulum" -> "own"

Draws(k) == IF k = "pendulum" THEN Draws4 ELSE Draws3

\* values the caller writes into the x component of the object it holds
Written == {0, 5}

CanReturned == calls.steps + calls.other < MaxReturnedCalls

\* step and perturb write the components of this.position in place: an object
\* that is this.position shows the new content
HeldFollows(s) ==
  IF refs.returned = "position" THEN [refs EXCEPT !.value = s.position] ELSE refs

\* the caller keeps the first value a step returns
ReturnedStep ==
  /\ CanReturned
  /\ \E speed \in Speeds :
       /\ sys' = Step(kind, sys, speed)
       /\ op' = "step" /\ arg' = speed
  /\ ret' = StepResult(kind, sys')
  /\ refs' = IF refs.returned = "none"
             THEN [refs EXCEPT !.returned = StepReturns(kind),
                               !.value = ret', !.original = ret']
             ELSE HeldFollows(sys')
  /\ fired' = FALSE
  /\ calls' = [calls EXCEPT !.steps = @ + 1]
  /\ UNCHANGED <<kind, fresh, store, systemRef>>

ReturnedPerturb ==
  /\ CanReturned
  /\ \E amount \in Amounts, draws \in Draws(kind) :
       /\ sys' = Perturb(kind, sys, amount, draws)
       /\ op' = "perturb" /\ arg' = amount
  /\ refs' = HeldFollows(sys')
  /\ ret' = << >> /\ fired' = FALSE
  /\ calls' = [calls EXCEPT !.other = @ + 1]
  /\ UNCHANGED <<kind, fresh, store, systemRef>>

\* reset assigns a new object to this.position: an object that was
\* this.position is the caller's alone from then on
ReturnedReset ==
  /\ CanReturned
  /\ \E s \in States(kind) :
       /\ sys' = Reset(kind, sys, s)
       /\ op' = "reset" /\ arg' = s
  /\ refs' = IF refs.returned = "position" THEN [refs EXCEPT !.returned = "own"] ELSE refs
  /\ ret' = << >> /\ fired' = FALSE
  /\ calls' = [calls EXCEPT !.other = @ + 1, !.resets = @ + 1]
  /\ UNCHANGED <<kind, fresh, store, systemRef>>

\* the caller assigns to the x component of the object it holds
ReturnedMutate ==
  /\ CanReturned
  /\ refs.returned # "none"
  /\ \E v \in Written :
       /\ refs' = [refs EXCEPT !.value = [refs.value EXCEPT ![1] = v]]
       /\ op' = "mutate" /\ arg' = v
  /\ sys' = IF refs.returned = "position"
            THEN [sys EXCEPT !.position = refs'.value]
            ELSE sys
  /\ ret' = << >> /\ fired' = FALSE
  /\ calls' = [calls EXCEPT !.other = @ + 1]
  /\ UNCHANGED <<kind, fresh, store, systemRef>>

NextReturned == ReturnedStep \/ ReturnedPerturb \/ ReturnedReset \/ ReturnedMutate

SpecReturned == Init /\ [][NextReturned]_vars

\* C20 as stated: step returns a clone, not the instance's position object;
\* a later step, perturb or reset leaves a value returned earlier as it was;
\* and writing to the returned value leaves the instance as it was.
C20_AsStated ==
  [][/\ (op' = "step" /\ refs.returned = "none") => refs'.returned = "own"
     /\ (op' \in {"step", "perturb", "reset"} /\ refs.returned # "none") =>
          refs'.value = refs.value
     /\ op' = "mutate" => sys' = sys]_vars

\* ------------------------------------- snapshots and initial-state arguments
\* mutant: getParams hands out this.params itself
GetParamsReturnsReference(k) == "alias"

\* getParams returns { ...this.params }: an object of the caller's own
GetParamsReturns(k) == "own"

\* getPosition builds { x, y, z }, getState returns { ...this.state }
GetStateReturns(k) == "own"

\* the constructor stores initialPosition.clone() ({ ...initialState }), so the
\* argument stays the caller's own
ConstructorKeeps(k) == "own"

\* reset stores initialPosition.clone() ({ ...initialState })
ResetKeeps(k) == "own"

\* the parameter the caller writes to in a params object it holds
ParamKey(k) ==
  CASE k = "lorenz"   -> "sigma"
    [] k = "rossler"  -> "a"
    [] k = "pendulum" -> "mass1"

\* the held object with v written into one of its components
WrittenInto(what, val, v) ==
  CASE what = "params"   -> [val EXCEPT ![ParamKey(kind)] = v]
    [] what = "state"    -> [val EXCEPT !.theta1 = v]
    [] what = "position" -> [val EXCEPT ![1] = v]

CanSnapshot == calls.steps + calls.other < MaxSnapshotCalls

\* the pendulum's guard assigns a new object to this.state
StepDetaches(k, s, speed) ==
  k = "pendulum" /\ PendulumDiverged(PendulumRk4(s, Mul(PendulumDt, speed)))

\* an object that is a field of the instance shows what the call wrote there
\* in place; detached says that the call assigned a new object to the field
SnapshotFollows(s, detached) ==
  IF refs.returned = "alias"
  THEN IF detached THEN [refs EXCEPT !.returned = "own"]
       ELSE [refs EXCEPT !.value = s[refs.what]]
  ELSE refs

\* the caller holds the object it passed to the constructor as initial State
InitSnapshot ==
  /\ kind \in {"lorenz", "rossler", "pendulum"}
  /\ \E p \in ParamSets(kind) : sys = Construct(kind, DefaultState(kind), p)
  /\ fresh = sys
  /\ op = "new" /\ arg = DefaultState(kind) /\ ret = << >> /\ fired = FALSE
  /\ calls = NoCalls
  /\ refs = [NoRefs EXCEPT !.what = StateField, !.returned = ConstructorKeeps(kind),
                           !.value = DefaultState(kind), !.original = DefaultState(kind)]
  /\ store = NoStore /\ systemRef = NoSystem

SnapshotGetParams ==
  /\ CanSnapshot
  /\ refs' = [refs EXCEPT !.what = "params", !.returned = GetParamsReturns(kind),
                          !.value = sys.params, !.original = sys.params]
  /\ op' = "getParams" /\ arg' = << >> /\ ret' = sys.params /\ fired' = FALSE
  /\ calls' = [calls EXCEPT !.other = @ + 1]
  /\ UNCHANGED <<kind, sys, fresh, store, systemRef>>

\* getPosition of Lorenz and Rossler, getState of the pendulum
SnapshotGetState ==
  /\ CanSnapshot
  /\ refs' = [refs EXCEPT !.what = StateField, !.returned = GetStateReturns(kind),
                          !.value = sys[StateField], !.original = sys[StateField]]
  /\ op' = "getState" /\ arg' = << >> /\ ret' = sys[StateField] /\ fired' = FALSE
  /\ calls' = [calls EXCEPT !.other = @ + 1]
  /\ UNCHANGED <<kind, sys, fresh, store, systemRef>>

\* reset called with the State object the caller holds
SnapshotReset ==
  /\ CanSnapshot
  /\ refs.what = StateField
  /\ sys' = Reset(kind, sys, refs.value)
  /\ refs' = [refs EXCEPT !.returned = ResetKeeps(kind)]
  /\ op' = "reset" /\ arg' = refs.value /\ ret' = << >> /\ fired' = FALSE
  /\ calls' = [calls EXCEPT !.other = @ + 1, !.resets = @ + 1]
  /\ UNCHANGED <<kind, fresh, store, systemRef>>

SnapshotStep ==
  /\ CanSnapshot
  /\ \E speed \in Speeds :
       /\ sys' = Step(kind, sys, speed)
       /\ refs' = SnapshotFollows(sys', refs.what = "state" /\ StepDetaches(kind, sys, speed))
       /\ op' = "step" /\ arg' = speed
  /\ ret' = StepResult(kind, sys') /\ fired' = FALSE
  /\ calls' = [calls EXCEPT !.steps = @ + 1]
  /\ UNCHANGED <<kind, fresh, store, systemRef>>

SnapshotPerturb ==
  /\ CanSnapshot
  /\ \E amount \in Amounts, draws \in Draws(kind) :
       /\ sys' = Perturb(kind, sys, amount, draws)
       /\ op' = "perturb" /\ arg' = amount
  /\ refs' = SnapshotFollows(sys', FALSE)
  /\ ret' = << >> /\ fired' = FALSE
  /\ calls' = [calls EXCEPT !.other = @ + 1]
  /\ UNCHANGED <<kind, fresh, store, systemRef>>

SnapshotUpdateParams ==
  /\ CanSnapshot
  /\ \E partial \in Partials(kind) :
       /\ sys' = UpdateParams(kind, sys, partial)
       /\ op' = "updateParams" /\ arg' = partial
  /\ refs' = SnapshotFollows(sys', refs.what = "params" /\ ~UpdateParamsShares(TRUE))
  /\ ret' = << >> /\ fired' = FALSE
  /\ calls' = [calls EXCEPT !.other = @ + 1]
  /\ UNCHANGED <<kind, fresh, store, systemRef>>

\* the caller writes into the object it holds
SnapshotMutate ==
  /\ CanSnapshot
  /\ \E v \in Written :
       /\ refs' = [refs EXCEPT !.value = WrittenInto(refs.what, refs.value, v)]
       /\ op' = "mutate" /\ arg' = v
  /\ sys' = IF refs.returned = "alias" THEN [sys EXCEPT ![refs.what] = refs'.value] ELSE sys
  /\ ret' = << >> /\ fired' = FALSE
  /\ calls' = [calls EXCEPT !.other = @ + 1]
  /\ UNCHANGED <<kind, fresh, store, systemRef>>

NextSnapshot ==
  \/ SnapshotGetParams \/ SnapshotGetState \/ SnapshotReset \/ SnapshotStep
  \/ SnapshotPerturb \/ SnapshotUpdateParams \/ SnapshotMutate

SpecSnapshot == InitSnapshot /\ [][NextSnapshot]_vars

\* C21: getParams(), getState() and getPosition() return snapshots and the
\* constructor and reset copy their initial-state argument: writing into such
\* an object never changes the instance's State, parameters or Trail, and a
\* later call on the instance never changes the object.
C21_SnapshotsDetached ==
  [][/\ op' = "mutate" =>
          /\ refs'.value # refs.value => sys' = sys
          /\ sys'[StateField] = sys[StateField]
          /\ sys'.params = sys.params
          /\ sys'.points = sys.points
     /\ op' \in {"step", "perturb", "updateParams", "reset"} =>
          refs'.value = refs.value]_vars

C21_Witness ==
  /\ op = "mutate"
  /\ refs.what = "params"
  /\ refs.value # refs.original
  /\ refs.value # sys.params
  /\ calls.steps >= 1

\* ------------------------------------------------- the per-frame loop
\* trail lengths the user configures
ConfiguredLengths == {1, 3}

\* resetSimulation's first set(): the counter goes up by one, playback pauses;
\* setTimeout schedules one more timer
ResetSets(st) ==
  [st EXCEPT !.resetCounter = @ + 1, !.isPlaying = FALSE, !.timers = @ + 1]

\* mutant: the timer resumes playback only if nothing was paused meanwhile
TimerSetsKeepsPause(st) == [st EXCEPT !.timers = @ - 1]

\* the timer's set({ isPlaying: true })
TimerSets(st) == [st EXCEPT !.isPlaying = TRUE, !.timers = @ - 1]

\* what a call of the loop's specification records as its input: whether
\* playback was on and the configured trail length when it was made
Seen == [playing |-> store.isPlaying, length |-> store.trailLength]

InitFrames ==
  /\ kind \in {"lorenz", "rossler", "pendulum"}
  /\ \E p \in ParamSets(kind) : sys = Construct(kind, DefaultState(kind), p)
  /\ fresh = sys
  /\ op = "new" /\ ret = << >> /\ fired = FALSE
  /\ calls = NoCalls
  /\ refs = NoRefs
  /\ \E n \in ConfiguredLengths : store = [NoStore EXCEPT !.trailLength = n]
  /\ arg = Seen
  /\ systemRef = NoSystem

\* useFrame: nothing when paused, else step then trimTrail(trailLength); the
\* store's speed is taken such that the step is a step(1)
Frame ==
  /\ IF store.isPlaying
     THEN /\ calls.steps < MaxFrames
          /\ sys' = TrimTrail(kind, Step(kind, sys, 1), store.trailLength)
          /\ calls' = [calls EXCEPT !.steps = @ + 1]
     ELSE UNCHANGED <<sys, calls>>
  /\ op' = "frame" /\ arg' = Seen /\ ret' = << >> /\ fired' = FALSE
  /\ UNCHANGED <<kind, fresh, refs, store, systemRef>>

SetIsPlaying ==
  /\ \E playing \in BOOLEAN :
       /\ store' = [store EXCEPT !.isPlaying = playing]
       /\ arg' = [Seen EXCEPT !.playing = playing]
  /\ op' = "setIsPlaying" /\ ret' = << >> /\ fired' = FALSE
  /\ UNCHANGED <<kind, sys, fresh, calls, refs, systemRef>>

SetTrailLength ==
  /\ \E length \in ConfiguredLengths :
       /\ store' = [store EXCEPT !.trailLength = length]
       /\ arg' = [Seen EXCEPT !.length = length]
  /\ op' = "setTrailLength" /\ ret' = << >> /\ fired' = FALSE
  /\ UNCHANGED <<kind, sys, fresh, calls, refs, systemRef>>

\* resetSimulation, with the component's effect on _resetCounter: the
\* instance is reset to the initial condition
ResetSimulation ==
  /\ store.resetCounter < MaxResets
  /\ store' = ResetSets(store)
  /\ sys' = Reset(kind, sys, DefaultState(kind))
  /\ op' = "resetSimulation" /\ arg' = Seen /\ ret' = << >> /\ fired' = FALSE
  /\ calls' = [calls EXCEPT !.resets = @ + 1]
  /\ UNCHANGED <<kind, fresh, refs, systemRef>>

\* a pending timer runs
TimerFires ==
  /\ store.timers > 0
  /\ store' = TimerSets(store)
  /\ op' = "timer" /\ arg' = Seen /\ ret' = << >> /\ fired' = FALSE
  /\ UNCHANGED <<kind, sys, fresh, calls, refs, systemRef>>

NextFrames == Frame \/ SetIsPlaying \/ SetTrailLength \/ ResetSimulation \/ TimerFires

SpecFrames == InitFrames /\ [][NextFrames]_vars

\* the browser runs every timer that was set
SpecFramesFair == SpecFrames /\ WF_vars(TimerFires)

\* C22 as stated: at the end of every frame the Trail is no longer than the
\* configured trail length, whatever frames, play/pause toggles, resets and
\* changes of the configured length came before.
C22_AsStated == op = "frame" => Len(sys.points) <= store.trailLength

\* C29: resetSimulation() increments _resetCounter by exactly one, pauses
\* playback and sets one timer; the timer sets isPlaying to true
\* unconditionally; so after every reset playback eventually resumes, whether
\* or not it was paused before the reset or while the timer was pending.
C29_ResetResumes ==
  /\ [][/\ op' = "resetSimulation" =>
             /\ store'.resetCounter = store.resetCounter + 1
             /\ store'.isPlaying = FALSE
             /\ store'.timers = store.timers + 1
        /\ op' = "timer" => store'.isPlaying = TRUE]_vars
  /\ (store.timers > 0) ~> (op = "timer" /\ store.isPlaying)

C29_Witness ==
  /\ op = "timer" /\ arg.playing = FALSE
  /\ store.isPlaying
  /\ store.resetCounter >= 1
  /\ store.timers = 0

\* ------------------------------------------- the active-system reference
SystemTypes == {"lorenz", "rossler", "doublePendulum"}

\* mutant: only the instance is stored
setActiveSystemKeepsType(ref, system, type) == [ref EXCEPT !.system = system]

setActiveSystem(ref, system, type) == [ref EXCEPT !.system = system, !.type = type]

\* mutant: the reference is cleared whoever asks
clearActiveSystemAlways(ref, system) == [ref EXCEPT !.system = 0, !.type = "null"]

clearActiveSystem(ref, system) ==
  IF ref.system = system
  THEN [ref EXCEPT !.system = 0, !.type = "null"]
  ELSE ref

\* two instances exist, sys (1) and fresh (2); none is registered
InitSystemRef ==
  /\ kind \in {"lorenz", "rossler", "pendulum"}
  /\ \E p \in ParamSets(kind) :
       /\ sys = Construct(kind, DefaultState(kind), p)
       /\ fresh = Construct(kind, DefaultState(kind), p)
  /\ op = "new" /\ arg = [system |-> 0, type |-> "null"] /\ ret = << >> /\ fired = FALSE
  /\ calls = NoCalls
  /\ refs = NoRefs
  /\ store = NoStore
  /\ systemRef = NoSystem

SetActiveSystemCall ==
  /\ \E i \in {1, 2}, t \in SystemTypes :
       /\ systemRef' = setActiveSystem(systemRef, i, t)
       /\ arg' = [system |-> i, type |-> t]
  /\ op' = "setActiveSystem" /\ ret' = << >> /\ fired' = FALSE
  /\ UNCHANGED <<kind, sys, fresh, calls, refs, store>>

ClearActiveSystemCall ==
  /\ \E i \in {1, 2} :
       /\ systemRef' = clearActiveSystem(systemRef, i)
       /\ arg' = [system |-> i, type |-> "null"]
  /\ op' = "clearActiveSystem" /\ ret' = << >> /\ fired' = FALSE
  /\ UNCHANGED <<kind, sys, fresh, calls, refs, store>>

\* perturbActiveSystem(amount): perturb of the registered instance, nothing
\* when none is registered
PerturbActiveSystemCall ==
  /\ calls.other < MaxRefPerturbs
  /\ \E amount \in Amounts, draws \in Draws(kind) :
       /\ sys' = IF systemRef.system = 1 THEN Perturb(kind, sys, amount, draws) ELSE sys
       /\ fresh' = IF systemRef.system = 2 THEN Perturb(kind, fresh, amount, draws) ELSE fresh
       /\ arg' = [system |-> systemRef.system, type |-> systemRef.type]
  /\ op' = "perturbActiveSystem" /\ ret' = << >> /\ fired' = FALSE
  /\ calls' = [calls EXCEPT !.other = @ + 1]
  /\ UNCHANGED <<kind, refs, store, systemRef>>

NextSystemRef == SetActiveSystemCall \/ ClearActiveSystemCall \/ PerturbActiveSystemCall

SpecSystemRef == InitSystemRef /\ [][NextSystemRef]_vars

\* C23: clearActiveSystem(s) sets system and type to null only if s is the
\* registered instance and otherwise leaves both as they are;
\* setActiveSystem(s, t) always sets both fields to s and t.
C23_ClearsOnlyOwn ==
  [][/\ op' = "clearActiveSystem" =>
          systemRef' = IF systemRef.system = arg'.system
                       THEN [system |-> 0, type |-> "null"]
                       ELSE systemRef
     /\ op' = "setActiveSystem" =>
          systemRef' = [system |-> arg'.system, type |-> arg'.type]]_vars

C23_Witness ==
  /\ op = "clearActiveSystem" /\ arg.system = 2
  /\ systemRef = [system |-> 1, type |-> "lorenz"]

\* C30: when clearActiveSystem(A) and setActiveSystem(B, typeB) are called one
\* after the other, in either order, the reference ends registered to B with
\* typeB; and in every reachable state system is null exactly when type is.
C30_SwitchEndsOnNew ==
  /\ [][/\ (op = "setActiveSystem" /\ op' = "clearActiveSystem"
             /\ arg'.system # arg.system) =>
             systemRef' = [system |-> arg.system, type |-> arg.type]
        /\ (op = "clearActiveSystem" /\ op' = "setActiveSystem"
             /\ arg'.system # arg.system) =>
             systemRef' = [system |-> arg'.system, type |-> arg'.type]]_vars
  /\ [](systemRef.system = 0 <=> systemRef.type = "null")

C30_Witness ==
  /\ op = "clearActiveSystem" /\ arg.system = 1
  /\ systemRef = [system |-> 2, type |-> "doublePendulum"]
  /\ calls.other >= 1

TangentNorm(k, pert) == IF k = "pendulum" THEN Length4(pert) ELSE Length3(pert)

CrossingTest(k, s, st) ==
  CASE k = "lorenz"   -> Gt(s.prevDz, 0) /\ Le(Sub(st[3], s.prevZ), 0)
    [] k = "rossler"  -> Lt(s.prevY, 0) /\ Ge(st[2], 0)
    [] k = "pendulum" -> /\ Gt(WrapAngle(s.prevTheta2), 2)
                         /\ Lt(WrapAngle(st.theta2), 1)

\* C26: a step appends a pair to poincarePoints exactly when the Trail, after
\* the step's own append, is longer than the warm-up length and the crossing
\* test holds between the remembered value and the new State; it appends at
\* most one pair, taken from the new State, and the list is capped after it.
C26_SectionAppend ==
  [][op' = "step" =>
       IF Len(sys'.points) > WarmUp /\ CrossingTest(kind, sys, sys'[StateField])
       THEN /\ sys'.poincarePoints = PushPoincare(sys.poincarePoints, SectionPair')
            /\ calls'.recorded = calls.recorded + 1
       ELSE /\ sys'.poincarePoints = sys.poincarePoints
            /\ calls'.recorded = calls.recorded]_vars

C26_Witness ==
  /\ op = "step"
  /\ calls.recorded >= 1
  /\ Len(sys.points) = WarmUp + 1
  /\ sys.poincarePoints # << >>
  /\ Last(sys.poincarePoints) = SectionPair

\* ------------------------------------- a caller that trims after every step
\* lengths below the warm-up length (at most 99 in the source's scale)
ShortLengths == {0, WarmUp - 1}

\* step, then trimTrail to a short length, as the frame loop does with a
\* short configured trail; ret keeps whether the crossing test held
TrimmedStep ==
  /\ calls.steps < MaxTrimmedSteps
  /\ \E speed \in Speeds, maxLength \in ShortLengths :
       LET stepped == Step(kind, sys, speed)
       IN  /\ speed # 1 => calls.other < MaxTrimmedOther
           /\ sys' = TrimTrail(kind, stepped, maxLength)
           /\ ret' = << CrossingTest(kind, sys, stepped[StateField]) >>
           /\ arg' = << speed, maxLength >>
           /\ calls' = [calls EXCEPT !.steps = @ + 1, !.sinceReset = @ + 1,
                                      !.other = IF speed # 1 THEN @ + 1 ELSE @]
  /\ op' = "step" /\ fired' = FALSE
  /\ UNCHANGED <<kind, fresh, refs, store, systemRef>>

TrimmedPerturb ==
  /\ calls.other < MaxTrimmedOther
  /\ \E amount \in Amounts, draws \in Draws(kind) :
       /\ sys' = Perturb(kind, sys, amount, draws)
       /\ arg' = << amount, draws >>
  /\ op' = "perturb" /\ ret' = << >> /\ fired' = FALSE
  /\ calls' = CountOther
  /\ UNCHANGED <<kind, fresh, refs, store, systemRef>>

TrimmedUpdateParams ==
  /\ calls.other < MaxTrimmedOther
  /\ \E partial \in Partials(kind) :
       /\ sys' = UpdateParams(kind, sys, partial)
       /\ arg' = << partial >>
  /\ op' = "updateParams" /\ ret' = << >> /\ fired' = FALSE
  /\ calls' = CountOther
  /\ UNCHANGED <<kind, fresh, refs, store, systemRef>>

TrimmedReset ==
  /\ calls.other < MaxTrimmedOther
  /\ \E st \in States(kind) :
       /\ sys' = Reset(kind, sys, st)
       /\ arg' = << st >>
  /\ op' = "reset" /\ ret' = << >> /\ fired' = FALSE
  /\ calls' = CountReset
  /\ UNCHANGED <<kind, fresh, refs, store, systemRef>>

NextTrimmed == TrimmedStep \/ TrimmedPerturb \/ TrimmedUpdateParams \/ TrimmedReset

SpecTrimmed == Init /\ [][NextTrimmed]_vars

\* C27: the warm-up is measured by the current Trail length: for a caller
\* that trims the Trail below the warm-up length after every step,
\* poincarePoints is empty in every state, however many steps were taken since
\* the last reset and however many crossings occurred.
C27_WarmUpByTrailLength ==
  /\ sys.poincarePoints = << >>
  /\ Len(sys.points) < WarmUp \/ op = "new" \/ op = "reset"

C27_Witness ==
  /\ op = "step"
  /\ ret = << TRUE >>
  /\ calls.sinceReset > WarmUp
  /\ sys.poincarePoints = << >>

\* C28: lyapunovExponent is finite in every state; a renormalization whose
\* tangent norm is zero or not finite is skipped: sum, count and exponent stay,
\* the advanced tangent vector is not rescaled, and only the
\* steps-since-renormalization counter returns to 0; and from a tangent
\* vector that is not finite every step leaves it not finite and the exponent
\* at its last value.
C28_ExponentFinite ==
  /\ [](isFinite(sys.lyapunovExponent) /\ isFinite(sys.lyapunovSum))
  /\ [][op' = "step" =>
          LET advanced == TangentAdvanced(kind, sys, Mul(BaseDt, arg'), sys'[StateField])
              norm     == TangentNorm(kind, advanced)
          IN  /\ (sys.stepsSinceRenorm + 1 >= RenormInterval
                     /\ ~(Gt(norm, 0) /\ isFinite(norm))) =>
                    /\ sys'.lyapunovSum = sys.lyapunovSum
                    /\ sys'.lyapunovSteps = sys.lyapunovSteps
                    /\ sys'.lyapunovExponent = sys.lyapunovExponent
                    /\ Tangent(kind, sys') = advanced
                    /\ sys'.stepsSinceRenorm = 0
              /\ ~AllFinite(Tangent(kind, sys)) =>
                    /\ ~AllFinite(Tangent(kind, sys'))
                    /\ sys'.lyapunovExponent = sys.lyapunovExponent]_vars

C28_Witness ==
  /\ op = "step"
  /\ ~AllFinite(Tangent(kind, sys))
  /\ sys.stepsSinceRenorm = 0
  /\ sys.lyapunovSteps >= 1
  /\ sys.lyapunovExponent # 0
  /\ calls.sinceReset >= 2 * RenormInterval

====
